---- MODULE Spec2Model ----
(***************************************************************************)
(* A model of assets/js/kelp-tecnologiahumanista.0.10.js: the three Kelp   *)
(* custom elements kelp-subnav, kelp-heading-anchors and kelp-toc, their   *)
(* lifecycle callbacks, the identifier assigner setTextAsID and the        *)
(* recursive list builder #createList of kelp-toc.                         *)
(*                                                                         *)
(* Strings the code computes with (text content, identifiers) are          *)
(* sequences of one-character strings.  The document's content (its        *)
(* headings, the <details> inside the sub-navigation, the attributes an    *)
(* author wrote) is chosen by the initial state and is changed afterwards  *)
(* only by the components.  A heading lies either inside the               *)
(* kelp-heading-anchors element, and is then part of the document only     *)
(* while that element is attached, or elsewhere in the document.           *)
(* kelp-toc is configured without the optional caption (no heading         *)
(* attribute) and with a level attribute that matches every heading,       *)
(* kelp-heading-anchors with its default icon, placement and levels.       *)
(***************************************************************************)
EXTENDS Integers, Sequences, FiniteSets, TLC

VARIABLES
    readyState,    \* document.readyState: "loading" or "interactive"
    headings,      \* the headings in tree order: [rank, text, id, inAnchors, assigned]
    hasDetails,    \* whether kelp-subnav contains a <details> element
    nested,        \* whether kelp-toc carries the nested attribute
    connected,     \* per component: attached to the document
    pending,       \* per component: DOMContentLoaded once-listeners registered by ready()
    isReady,       \* per component: the is-ready attribute
    isPaused,      \* kelp-subnav: the is-paused attribute
    docListeners,  \* event types for which kelp-subnav is registered on document
    settings,      \* kelp-toc private fields read by render(): [set, nested]
    index,         \* kelp-toc #index
    tocHTML,       \* kelp-toc innerHTML: [rendered, list]
    builds,        \* number of lists kelp-toc's render() has built
    readyCount,    \* per component: ready notifications dispatched so far
    last           \* what the latest handler did: [handler, comp, init, wasReady, render, events]

vars == <<readyState, headings, hasDetails, nested, connected, pending, isReady,
          isPaused, docListeners, settings, index, tocHTML, builds, readyCount, last>>

Comps == {"subnav", "anchors", "toc"}

(***************************************************************************)
(* Bounds of the model.                                                    *)
(***************************************************************************)
MaxHeadings == 5    \* longest heading sequence of the builder's inputs
MaxRank == 5        \* deepest heading rank of the builder's inputs
MaxPending == 2     \* DOMContentLoaded listeners one component may have waiting
MaxBuilds == 1      \* lists built before a script stops calling render() itself

MinRank == 2

(***************************************************************************)
(* Characters and strings.                                                 *)
(***************************************************************************)
Whitespace == {" ", "\n", "\t"}

\* The characters the first replace() of setTextAsID keeps.
AllowedChars == {"a", "b", "0", "1", "2", "3", "4", "5", "6", "7", "8", "9", "-", "_"}
                    \cup Whitespace

Digits == <<"0", "1", "2", "3", "4", "5", "6", "7", "8", "9">>

RECURSIVE ToStr(_)
ToStr(n) == IF n < 10 THEN <<Digits[n + 1]>>
            ELSE ToStr(n \div 10) \o <<Digits[(n % 10) + 1]>>

\* replace(/[^a-zA-Z0-9-_\u00A0-\uFFEF\s-]/g, '-'); of the characters used here only
\* "!" and "#" fall outside the class
ReplaceDisallowed(s) ==
    [i \in 1..Len(s) |-> IF s[i] \in AllowedChars THEN s[i] ELSE "-"]

\* replace(/[\s-]+/g, '-')
RECURSIVE CollapseRuns(_)
CollapseRuns(s) ==
    IF s = <<>> THEN <<>>
    ELSE LET rest == CollapseRuns(Tail(s))
         IN  IF Head(s) \in Whitespace \cup {"-"}
             THEN IF Len(s) > 1 /\ s[2] \in Whitespace \cup {"-"}
                  THEN rest
                  ELSE <<"-">> \o rest
             ELSE <<Head(s)>> \o rest

Slug(text) == CollapseRuns(ReplaceDisallowed(text))

KelpPrefix == <<"k", "e", "l", "p", "_">>

\* `kelp_${id}${suffix ? `_${suffix}` : ''}`
CandidateID(slug, suffix) ==
    KelpPrefix \o slug \o (IF suffix = 0 THEN <<>> ELSE <<"_">> \o ToStr(suffix))

\* The positions of the headings that are part of the document when
\* kelp-heading-anchors is attached or not.
InDocument(hs, anchorsAttached) ==
    {j \in DOMAIN hs : ~hs[j].inAnchors \/ anchorsAttached}

\* document.querySelector(`#${id}`) finds an element; doc: the positions of
\* the headings in the document
QuerySelectorID(hs, doc, id) == \E j \in doc : hs[j].id = id

\* the while loop of setTextAsID: the first suffix whose identifier is free
RECURSIVE Probe(_, _, _, _)
Probe(hs, doc, slug, suffix) ==
    IF QuerySelectorID(hs, doc, CandidateID(slug, suffix))
    THEN Probe(hs, doc, slug, suffix + 1)
    ELSE suffix

\* setTextAsID(elem) for the heading at position i: the headings afterwards
setTextAsID(hs, doc, i) ==
    LET slug == Slug(hs[i].text)
    IN  IF hs[i].id # <<>> THEN hs
        ELSE IF slug = <<>> THEN hs
        ELSE [hs EXCEPT ![i].id = CandidateID(slug, Probe(hs, doc, slug, 0)),
                        ![i].assigned = TRUE]

\* The members of a set of positions in tree order: a NodeList.
RECURSIVE NodeList(_)
NodeList(ps) ==
    IF ps = {} THEN <<>>
    ELSE LET first == CHOOSE p \in ps : \A q \in ps : p <= q
         IN  <<first>> \o NodeList(ps \ {first})

(***************************************************************************)
(* kelp-toc: #createList and render.                                       *)
(***************************************************************************)
\* A slip: the rank read is that of headings[index], the current heading.
NextLevelOfCurrent(hs, nodes, idx, currentLevel) ==
    IF idx + 1 <= Len(nodes) THEN hs[nodes[idx + 1]].rank ELSE currentLevel

\* headings[index + 1]?.tagName.slice(1) || currentLevel (index counts from 0,
\* nodes is the NodeList, a sequence of positions)
NextLevel(hs, nodes, idx, currentLevel) ==
    IF idx + 2 <= Len(nodes) THEN hs[nodes[idx + 2]].rank ELSE currentLevel

\* A slip: the nested setting is not consulted.
ShouldNestUnasked(isNested, nextLevel, currentLevel) ==
    nextLevel > currentLevel

\* A slip: >= for >.
ShouldNestOrEqual(isNested, nextLevel, currentLevel) ==
    isNested /\ nextLevel >= currentLevel

\* the condition under which an item embeds a recursively built list
ShouldNest(isNested, nextLevel, currentLevel) ==
    isNested /\ nextLevel > currentLevel

\* A slip: the top-level list breaks too.
ShouldBreakAnywhere(isFirst, nextLevel, currentLevel) ==
    nextLevel < currentLevel

\* the condition of the break that ends a list
ShouldBreak(isFirst, nextLevel, currentLevel) ==
    ~isFirst /\ nextLevel < currentLevel

NoList == <<>>

\* #createList(headings, isFirst) run with #index = idx on the NodeList
\* nodes: the items of the list it returns, #index afterwards and the
\* headings afterwards.  An item is [idx, href, text, sub]: the index of its
\* heading in the NodeList, the identifier and text written into its link,
\* and the list embedded in it.
RECURSIVE createList(_, _, _, _, _, _)
RECURSIVE ListLoop(_, _, _, _, _, _, _)
createList(hs, doc, nodes, isNested, isFirst, idx) ==
    ListLoop(hs, doc, nodes, isNested, isFirst, IF isFirst THEN 0 ELSE idx + 1, <<>>)

ListLoop(hs, doc, nodes, isNested, isFirst, idx, list) ==
    IF ~(idx < Len(nodes)) THEN [list |-> list, index |-> idx, hs |-> hs]
    ELSE LET hs1 == setTextAsID(hs, doc, nodes[idx + 1])
             heading == hs1[nodes[idx + 1]]
             currentLevel == heading.rank
             inner == IF ShouldNest(isNested, NextLevel(hs1, nodes, idx, currentLevel),
                                    currentLevel)
                      THEN createList(hs1, doc, nodes, isNested, FALSE, idx)
                      ELSE [list |-> NoList, index |-> idx, hs |-> hs1]
             item == [idx |-> idx, href |-> heading.id, text |-> heading.text,
                      sub |-> inner.list]
         IN  IF ShouldBreak(isFirst,
                            NextLevel(inner.hs, nodes, inner.index, currentLevel),
                            currentLevel)
             THEN [list |-> list \o <<item>>, index |-> inner.index, hs |-> inner.hs]
             ELSE ListLoop(inner.hs, doc, nodes, isNested, isFirst, inner.index + 1,
                           list \o <<item>>)

\* document.querySelectorAll(`${target} :is(${level})`): every heading of the
\* document once init() has stored the settings, nothing before (the selector
\* then reads "undefined :is(undefined)")
TocHeadings(doc, st) == IF st.set THEN NodeList(doc) ELSE <<>>

\* A slip: the length is not checked.
NoHeadingsUnchecked(nodes) == FALSE

\* if (!headings.length) return;
NoHeadings(nodes) == Len(nodes) = 0

\* kelp-toc render(): [ok, hs, html, index, built]
TocRender(hs, doc, st, html, idx) ==
    LET nodes == TocHeadings(doc, st)
    IN  IF NoHeadings(nodes)
        THEN [ok |-> FALSE, hs |-> hs, html |-> html, index |-> idx, built |-> 0]
        ELSE LET r == createList(hs, doc, nodes, st.nested, TRUE, idx)
             IN  [ok |-> TRUE, hs |-> r.hs,
                  html |-> [rendered |-> TRUE, list |-> r.list],
                  index |-> r.index, built |-> 1]

(***************************************************************************)
(* kelp-heading-anchors: render.                                           *)
(***************************************************************************)
Icon == <<"#">>

\* textContent of a heading once its innerHTML is the anchor link
AnchorText(text) ==
    <<"\n", "\t", "\t", "\t", "\t", "\t">> \o text \o <<" ">> \o Icon
        \o <<"\n", "\t", "\t", "\t", "\t">>

\* this.querySelectorAll(this.#levels): the headings inside the element
AnchorsHeadings(hs) == NodeList({j \in DOMAIN hs : hs[j].inAnchors})

\* the for loop of render() from the k-th node on
RECURSIVE AnchorLoop(_, _, _, _)
AnchorLoop(hs, doc, nodes, k) ==
    IF k > Len(nodes) THEN hs
    ELSE LET i == nodes[k]
             hs1 == setTextAsID(hs, doc, i)
         IN  AnchorLoop([hs1 EXCEPT ![i].text = AnchorText(hs1[i].text)], doc,
                        nodes, k + 1)

\* kelp-heading-anchors render(): [ok, hs]
AnchorsRender(hs, doc) ==
    LET nodes == AnchorsHeadings(hs)
    IN  IF NoHeadings(nodes) THEN [ok |-> FALSE, hs |-> hs]
        ELSE [ok |-> TRUE, hs |-> AnchorLoop(hs, doc, nodes, 1)]

(***************************************************************************)
(* The init() methods.  h names the handler init() runs in, doc the        *)
(* positions of the headings that are part of the document then.           *)
(***************************************************************************)
Ran(h, c, wasReady, render, events) ==
    [handler |-> h, comp |-> c, init |-> TRUE, wasReady |-> wasReady,
     render |-> render, events |-> events]

NoInit(h, c) ==
    [handler |-> h, comp |-> c, init |-> FALSE, wasReady |-> FALSE,
     render |-> FALSE, events |-> <<>>]

SubnavEvents == {"click", "keydown"}

\* reinit(this, () => this.#listen()) of kelp-subnav: what it returns, and
\* whether it runs the callback and removes is-paused
reinit ==
    [isInit |-> isReady["subnav"], restore |-> isReady["subnav"] /\ isPaused]

SubnavInit(h) ==
    /\ IF reinit.isInit
       THEN /\ docListeners' = IF reinit.restore THEN docListeners \cup SubnavEvents
                                                 ELSE docListeners
            /\ isPaused' = IF reinit.restore THEN FALSE ELSE isPaused
            /\ last' = Ran(h, "subnav", TRUE, FALSE, <<>>)
            /\ UNCHANGED <<isReady, readyCount>>
       ELSE IF ~hasDetails
       THEN /\ last' = Ran(h, "subnav", FALSE, FALSE, <<"kelp:debug">>)
            /\ UNCHANGED <<docListeners, isPaused, isReady, readyCount>>
       ELSE /\ docListeners' = docListeners \cup SubnavEvents
            /\ isReady' = [isReady EXCEPT !["subnav"] = TRUE]
            /\ readyCount' = [readyCount EXCEPT !["subnav"] = @ + 1]
            /\ last' = Ran(h, "subnav", FALSE, FALSE, <<"kelp-subnav:ready">>)
            /\ UNCHANGED isPaused
    /\ UNCHANGED <<headings, settings, index, tocHTML, builds>>

\* if (this.hasAttribute('is-ready')) return;
AnchorsIsInit == isReady["anchors"]

AnchorsInit(h, doc) ==
    /\ IF AnchorsIsInit
       THEN /\ last' = Ran(h, "anchors", TRUE, FALSE, <<>>)
            /\ UNCHANGED <<headings, isReady, readyCount>>
       ELSE LET r == AnchorsRender(headings, doc)
            IN  /\ headings' = r.hs
                /\ IF ~r.ok
                   THEN /\ last' = Ran(h, "anchors", FALSE, TRUE, <<"kelp:debug">>)
                        /\ UNCHANGED <<isReady, readyCount>>
                   ELSE /\ isReady' = [isReady EXCEPT !["anchors"] = TRUE]
                        /\ readyCount' = [readyCount EXCEPT !["anchors"] = @ + 1]
                        /\ last' = Ran(h, "anchors", FALSE, TRUE,
                                       <<"kelp-heading-anchors:ready">>)
    /\ UNCHANGED <<docListeners, isPaused, settings, index, tocHTML, builds>>

\* A slip: the is-ready attribute is not consulted.
TocIsInitUnchecked == FALSE

\* if (this.hasAttribute('is-ready')) return;
TocIsInit == isReady["toc"]

TocInit(h, doc) ==
    /\ IF TocIsInit
       THEN /\ last' = Ran(h, "toc", TRUE, FALSE, <<>>)
            /\ UNCHANGED <<headings, settings, index, tocHTML, builds, isReady,
                           readyCount>>
       ELSE LET st == [set |-> TRUE, nested |-> nested]
                r == TocRender(headings, doc, st, tocHTML, 0)
            IN  /\ settings' = st
                /\ headings' = r.hs
                /\ tocHTML' = r.html
                /\ index' = r.index
                /\ builds' = builds + r.built
                /\ IF ~r.ok
                   THEN /\ last' = Ran(h, "toc", FALSE, TRUE, <<"kelp:debug">>)
                        /\ UNCHANGED <<isReady, readyCount>>
                   ELSE /\ isReady' = [isReady EXCEPT !["toc"] = TRUE]
                        /\ readyCount' = [readyCount EXCEPT !["toc"] = @ + 1]
                        /\ last' = Ran(h, "toc", FALSE, TRUE, <<"kelp-toc:ready">>)
    /\ UNCHANGED <<docListeners, isPaused>>

init(c, h, doc) ==
    CASE c = "subnav" -> SubnavInit(h)
      [] c = "anchors" -> AnchorsInit(h, doc)
      [] c = "toc" -> TocInit(h, doc)

\* ready(instance), called by connectedCallback
ready(c, h, doc) ==
    IF readyState # "loading"
    THEN init(c, h, doc) /\ UNCHANGED pending
    ELSE /\ pending' = [pending EXCEPT ![c] = @ + 1]
         /\ last' = NoInit(h, c)
         /\ UNCHANGED <<headings, isReady, isPaused, docListeners, settings, index,
                        tocHTML, builds, readyCount>>

(***************************************************************************)
(* The actions: what the host and the page's scripts do to the elements.   *)
(***************************************************************************)
\* The element is attached: connectedCallback.
Connect(c) ==
    /\ ~connected[c]
    /\ readyState = "loading" => pending[c] < MaxPending
    /\ connected' = [connected EXCEPT ![c] = TRUE]
    /\ ready(c, "connectedCallback", InDocument(headings, connected'["anchors"]))
    /\ UNCHANGED <<readyState, hasDetails, nested>>

\* The element is detached: disconnectedCallback, which only kelp-subnav has.
Disconnect(c) ==
    /\ connected[c]
    /\ connected' = [connected EXCEPT ![c] = FALSE]
    /\ IF c = "subnav"
       THEN docListeners' = docListeners \ SubnavEvents /\ isPaused' = TRUE
       ELSE UNCHANGED <<docListeners, isPaused>>
    /\ last' = NoInit("disconnectedCallback", c)
    /\ UNCHANGED <<readyState, hasDetails, nested, headings, pending, isReady,
                   settings, index, tocHTML, builds, readyCount>>

\* The document finishes loading and dispatches DOMContentLoaded.
DOMContentLoaded ==
    /\ readyState = "loading"
    /\ readyState' = "interactive"
    /\ last' = NoInit("DOMContentLoaded", "document")
    /\ UNCHANGED <<headings, hasDetails, nested, connected, pending, isReady, isPaused,
                   docListeners, settings, index, tocHTML, builds, readyCount>>

\* One of the once-listeners ready() registered runs: () => instance.init().
DeferredInit(c) ==
    /\ readyState # "loading"
    /\ pending[c] > 0
    /\ pending' = [pending EXCEPT ![c] = @ - 1]
    /\ init(c, "DOMContentLoaded", InDocument(headings, connected["anchors"]))
    /\ UNCHANGED <<readyState, hasDetails, nested, connected>>

\* A script calls kelp-toc's render() itself.
CallRender ==
    /\ builds <= MaxBuilds
    /\ LET r == TocRender(headings, InDocument(headings, connected["anchors"]),
                          settings, tocHTML, index)
       IN  /\ headings' = r.hs
           /\ tocHTML' = r.html
           /\ index' = r.index
           /\ builds' = builds + r.built
    /\ last' = [NoInit("render", "toc") EXCEPT !.render = TRUE]
    /\ UNCHANGED <<readyState, hasDetails, nested, connected, pending, isReady,
                   isPaused, docListeners, settings, readyCount>>

(***************************************************************************)
(* Initial states.                                                         *)
(***************************************************************************)
Heading(rank, text, id, inAnchors) ==
    [rank |-> rank, text |-> text, id |-> id, inAnchors |-> inAnchors,
     assigned |-> FALSE]

Prior == [rendered |-> FALSE, list |-> NoList]

\* Everything but the document's content: nothing attached, nothing run.
Fresh ==
    /\ connected = [c \in Comps |-> FALSE]
    /\ pending = [c \in Comps |-> 0]
    /\ isReady = [c \in Comps |-> FALSE]
    /\ isPaused = FALSE
    /\ docListeners = {}
    /\ settings = [set |-> FALSE, nested |-> FALSE]
    /\ index = 0
    /\ tocHTML = Prior
    /\ builds = 0
    /\ readyCount = [c \in Comps |-> 0]
    /\ last = NoInit("none", "document")

SeqsUpTo(S, n) == UNION {[1..k -> S] : k \in 0..n}

\* A document still loading: with no heading, or with two headings of
\* different texts, both inside kelp-heading-anchors or both outside it.
LifeHeadings ==
    {<<>>} \cup
    {<<Heading(MinRank, <<"a", "!">>, <<>>, inside),
       Heading(MinRank + 1, <<"a", " ", "-">>, <<>>, inside)>> : inside \in BOOLEAN}

Init ==
    /\ readyState = "loading"
    /\ headings \in LifeHeadings
    /\ hasDetails \in BOOLEAN
    /\ nested \in BOOLEAN
    /\ Fresh

Next ==
    \/ \E c \in Comps : Connect(c)
    \/ \E c \in Comps : Disconnect(c)
    \/ DOMContentLoaded
    \/ \E c \in Comps : DeferredInit(c)
    \/ CallRender

Spec == Init /\ [][Next]_vars

\* A loaded document whose headings have any ranks, lie outside
\* kelp-heading-anchors and have no identifier yet.
RankHeadings ==
    {[i \in DOMAIN rs |-> Heading(rs[i], <<"a">>, <<>>, FALSE)] :
        rs \in SeqsUpTo(MinRank..MaxRank, MaxHeadings)}

InitToc ==
    /\ readyState = "interactive"
    /\ headings \in RankHeadings
    /\ hasDetails = FALSE
    /\ nested \in BOOLEAN
    /\ Fresh

NextBuild ==
    \/ Connect("toc")
    \/ CallRender

SpecToc == InitToc /\ [][NextBuild]_vars

(***************************************************************************)
(* Reading a built list.                                                   *)
(***************************************************************************)
\* The headings a list renders, in the order of the markup.
RECURSIVE Flatten(_)
Flatten(list) ==
    IF list = <<>> THEN <<>>
    ELSE <<list[1].idx>> \o Flatten(list[1].sub) \o Flatten(Tail(list))

\* The list embedded in the item of heading h, wherever that item is.
RECURSIVE SubOf(_, _)
SubOf(list, h) ==
    IF list = <<>> THEN <<>>
    ELSE IF list[1].idx = h THEN list[1].sub
    ELSE LET below == SubOf(list[1].sub, h)
         IN  IF below # <<>> THEN below ELSE SubOf(Tail(list), h)

\* A list without the links' identifiers and texts.
RECURSIVE Shape(_)
Shape(list) == [i \in DOMAIN list |-> [idx |-> list[i].idx, sub |-> Shape(list[i].sub)]]

RECURSIVE Depth(_)
Depth(list) ==
    IF list = <<>> THEN 0
    ELSE LET below == {Depth(list[i].sub) : i \in DOMAIN list}
         IN  1 + CHOOSE d \in below : \A e \in below : e <= d

\* The heading sequence kelp-toc's selector finds, and its ranks.
TocNodes == NodeList(InDocument(headings, connected["anchors"]))

Ranks == [k \in DOMAIN TocNodes |-> headings[TocNodes[k]].rank]

\* Every item of an embedded list has a rank greater than the item embedding it.
RECURSIVE ChildrenDeeper(_)
ChildrenDeeper(list) ==
    \A i \in DOMAIN list :
        /\ \A k \in DOMAIN list[i].sub :
              Ranks[list[i].sub[k].idx + 1] > Ranks[list[i].idx + 1]
        /\ ChildrenDeeper(list[i].sub)

Rises == \E i \in 1..(Len(Ranks) - 1) : Ranks[i] < Ranks[i + 1]

Falls == \E i \in 1..(Len(Ranks) - 1) : Ranks[i] > Ranks[i + 1]

\* C1: a build emits exactly one list item per heading, nested or flat,
\* whatever the order of the ranks: no heading omitted, none emitted twice.
C1_EachHeadingOnce ==
    tocHTML.rendered =>
        LET f == Flatten(tocHTML.list)
        IN  /\ Len(f) = Len(TocNodes)
            /\ \A h \in 0..(Len(TocNodes) - 1) :
                  Cardinality({k \in DOMAIN f : f[k] = h}) = 1

C1_Witness ==
    /\ tocHTML.rendered
    /\ settings.nested
    /\ Len(TocNodes) >= 4
    /\ Rises
    /\ Falls

\* C2: in nested mode the headings rendered inside the item of a heading h
\* are exactly the headings of greater rank that follow h before the next
\* heading of rank equal to or less than h's.
C2_ChildrenAreTheDeeperRun ==
    (tocHTML.rendered /\ settings.nested) =>
        \A h \in 0..(Len(TocNodes) - 1) :
            {Flatten(SubOf(tocHTML.list, h))[k] :
                k \in DOMAIN Flatten(SubOf(tocHTML.list, h))}
              = {j \in (h + 1)..(Len(TocNodes) - 1) :
                    \A k \in (h + 1)..j : Ranks[k + 1] > Ranks[h + 1]}

\* C3: in nested mode the ranks [2,3,4,3,2] are built as a first top-level
\* item holding the rank-3 item (itself holding the rank-4 item) and the
\* second rank-3 item, followed by a second top-level item.
C3_TrailingShallower ==
    (tocHTML.rendered /\ settings.nested /\ Ranks = <<2, 3, 4, 3, 2>>) =>
        Shape(tocHTML.list) =
            << [idx |-> 0,
                sub |-> << [idx |-> 1, sub |-> <<[idx |-> 2, sub |-> <<>>]>>],
                           [idx |-> 3, sub |-> <<>>] >>],
               [idx |-> 4, sub |-> <<>>] >>

C3_Witness ==
    tocHTML.rendered /\ settings.nested /\ Ranks = <<2, 3, 4, 3, 2>>

\* C4: in flat mode every heading is an item of the single root list, in
\* order and with no embedded list: the output's nesting depth is 1.
C4_FlatDepthOne ==
    (tocHTML.rendered /\ ~settings.nested) =>
        /\ Depth(tocHTML.list) = 1
        /\ Len(tocHTML.list) = Len(TocNodes)
        /\ \A i \in DOMAIN tocHTML.list :
              tocHTML.list[i].idx = i - 1 /\ tocHTML.list[i].sub = NoList

C4_Witness ==
    tocHTML.rendered /\ ~settings.nested /\ Len(TocNodes) >= 3 /\ Rises /\ Falls

\* C5: no step changes an identifier a heading already has, and after every
\* step an identifier that setTextAsID assigned to an element of the
\* document is carried by no other element of the document.
C5_IdsStableAndUnique ==
    [][/\ \A i \in DOMAIN headings :
            headings[i].id # <<>> => headings'[i].id = headings[i].id
       /\ \A i, j \in InDocument(headings', connected'["anchors"]) :
            (i # j /\ headings'[i].assigned) => headings'[i].id # headings'[j].id]_vars

\* C6 as stated: whenever init of kelp-toc runs and the heading sequence is
\* empty, the component's content, the identifiers and the ready flag stay
\* as they were with the ready flag not set, nothing is built, and exactly
\* one debug notification and no ready notification is dispatched.
C6_AnyEmptyInitAborts ==
    [][(last'.init /\ last'.comp = "toc" /\ Len(TocNodes) = 0) =>
          /\ tocHTML' = tocHTML
          /\ headings' = headings
          /\ builds' = builds
          /\ ~isReady'["toc"]
          /\ readyCount' = readyCount
          /\ last'.events = <<"kelp:debug">>]_vars

\* C6 amended: the same of an init of kelp-toc that runs on an instance whose
\* is-ready attribute is not set.
C6_EmptyInitAborts ==
    [][(last'.init /\ last'.comp = "toc" /\ ~isReady["toc"] /\ Len(TocNodes) = 0) =>
          /\ tocHTML' = tocHTML
          /\ headings' = headings
          /\ builds' = builds
          /\ ~isReady'["toc"]
          /\ readyCount' = readyCount
          /\ last'.events = <<"kelp:debug">>]_vars

C6_Witness ==
    last.init /\ last.comp = "toc" /\ ~last.wasReady /\ Len(TocNodes) = 0

\* C7: whenever kelp-subnav is attached and every init its connections
\* triggered has run, the is-paused attribute is absent.
C7_PausedClearedOnReconnect ==
    (connected["subnav"] /\ pending["subnav"] = 0) => ~isPaused

\* C8: kelp-subnav's click and keydown listeners are not registered on the
\* document while it is detached, and are registered while it is attached
\* and ready.
C8_ListenersFollowAttachment ==
    /\ ~connected["subnav"] => docListeners = {}
    /\ (connected["subnav"] /\ isReady["subnav"]) => docListeners = SubnavEvents

\* C9: for each component the is-ready attribute, once set, stays set, the
\* ready notification is dispatched at most once, and an init that runs on
\* a ready instance dispatches nothing and renders nothing.
C9_ReadyGate ==
    [][\A c \in Comps :
          /\ isReady[c] => isReady'[c]
          /\ readyCount'[c] <= 1
          /\ (isReady[c] /\ last'.init /\ last'.comp = c) =>
                /\ last'.events = <<>>
                /\ ~last'.render
                /\ readyCount' = readyCount
                /\ builds' = builds
                /\ tocHTML' = tocHTML
                /\ headings' = headings]_vars

C9_Witness ==
    last.init /\ last.wasReady /\ last.comp = "toc" /\ readyCount["toc"] = 1

\* C10: in nested mode every item of an embedded list has a rank strictly
\* greater than the rank of the item that embeds the list.
C10_NestedUnderShallower ==
    (tocHTML.rendered /\ settings.nested) => ChildrenDeeper(tocHTML.list)

C10_Witness ==
    tocHTML.rendered /\ settings.nested /\ Depth(tocHTML.list) >= 3 /\ Falls

====
